---- MODULE Spec2Model ----
\* Model of eventlogRunner.Run (the winlog input's resilient read loop) with
\* its collaborators: the event log source, the cursor, the publisher, the
\* status sink and the cancellation context built by ctxtool.WithFunc.
EXTENDS Integers, Sequences, FiniteSets, TLC

\* ---------------------------------------------------------------- bounds

\* Highest record position the source can deliver.
MaxPos == 3
\* Largest batch a single read() returns.
MaxBatch == 2
\* Number of most recent entries the recorded call history keeps.
MaxTrace == 9
\* Highest checkpoint the store may hold when Run starts.
MaxInitCp == 1

\* ---------------------------------------------------------------- values

\* Error values the adapters hand back, by what the classification
\* predicates say about them.
ErrNil == "nil"
ErrKinds == {"Recoverable", "ChannelNotFound", "EOF", "Other"}
OpenErrs == {ErrNil, "Recoverable", "ChannelNotFound", "Other"}
ReadErrs == {ErrNil} \cup ErrKinds

IsRecoverable(e) == e = "Recoverable"
IsChannelNotFound(e) == e = "ChannelNotFound"
IsEOF(e) == e = "EOF"

\* The fixed intervals of the two cancellable waits, in seconds.
BackoffSeconds == 5
PollSeconds == 1

\* Status values written to the status sink (state plus message).
Running == "Running"
DegradedChannelNotFound == "Degraded: channel not found when opening"
DegradedOpen == "Degraded: failed to open"
DegradedReset == "Degraded: error resetting handle"
DegradedRead == "Degraded: error while reading"
DegradedPublish == "Degraded: error while publishing"
DegradedStatuses == {DegradedChannelNotFound, DegradedOpen, DegradedReset, DegradedRead, DegradedPublish}

VARIABLES
    pc,            \* position of the Runner inside Run
    isFile,        \* api.IsFile()
    cancelled,     \* cancelCtx.Err() != nil
    cancelAt,      \* Runner position when the cancellation signal was raised
    cancelFnCalled,\* the deferred cancelFn() has run
    closedAt,      \* Runner position when the WithFunc callback ran
    closeCount,    \* number of api.Close() calls
    handleOpen,    \* the source holds an open handle
    openOnOpen,    \* open() was applied to a handle that was still open
    status,        \* last status written to the status sink
    channelNotFoundErrDetected,
    cursor,        \* checkpoint store: [state, value]
    evtCheckpoint, \* checkpoint handed to the last open()
    err,           \* error of the last read()
    records,       \* batch of the last read()
    idx,           \* index of the next record of the batch to publish
    srcNext,       \* position of the next record the source delivers
    sessionRead,   \* records read since the last successful open()
    sessionPub,    \* publish() calls accepted since the last successful open()
    trace,         \* the most recent calls of the Runner, oldest first
    ret,           \* what Run returned
    cnfLogLevel,   \* level of the channel-not-found log line of the last open()
    usedAfterClose,\* open(), read() or reset() was called after close()
    pidEvent,      \* the event handed to addSessionMetadata.Run, apart from its PID value
    pidIn,         \* the value of the event's PID field
    pidOut,        \* what pidToUInt32 returned for it
    testRet        \* what eventlogRunner.Test returned

pidVars == <<pidEvent, pidIn, pidOut>>
testVars == <<testRet>>

vars == <<pc, isFile, cancelled, cancelAt, cancelFnCalled, closedAt, closeCount,
          handleOpen, openOnOpen, status, channelNotFoundErrDetected, cursor,
          evtCheckpoint, err, records, idx, srcNext, sessionRead, sessionPub,
          trace, ret, cnfLogLevel, usedAfterClose, pidEvent, pidIn, pidOut,
          testRet>>

\* ---------------------------------------------------------------- helpers

\* One entry of the recorded history.
Ev(op, res, n) == [op |-> op, res |-> res, n |-> n]

\* Append to the history, dropping the oldest entry when it is full.
Log(t, e) == IF Len(t) < MaxTrace THEN Append(t, e) ELSE Append(Tail(t), e)

\* A record as read() returns it: the raw event and its position marker.
Rec(p) == [id |-> p, offset |-> p]

\* The batch of n records starting at position from.
Batch(from, n) == [k \in 1..n |-> Rec(from + k - 1)]

\* No event is being processed, no pidToUInt32 call is under way.
NoEvent == [hasPid |-> FALSE, result |-> "none"]
NoPid == [type |-> "none"]

\* eventlogRunner.Test was not called.
NoTest == "none"

NoRet == [val |-> "none", from |-> "", err |-> ErrNil]
RetNil == [val |-> "nil", from |-> "", err |-> ErrNil]
RetErr(from, e) == [val |-> "err", from |-> from, err |-> e]

\* ---------------------------------------------------------------- code

\* Variant of initCheckpoint that keeps what a failed Unpack left behind.
initCheckpointKeepsCorrupt(c) ==
    IF c.state = "new" THEN 0
    ELSE c.value

\* initCheckpoint: zero value for a new cursor or a failed Unpack.
initCheckpoint(c) ==
    IF c.state = "new" THEN 0
    ELSE IF c.state = "corrupt" THEN 0
    ELSE c.value

\* Variant of OpenCheckpoint that reuses the checkpoint of the previous open.
OpenCheckpointCached(c, previous) == previous

\* The checkpoint of one open attempt: read from the cursor inside runLoop.
OpenCheckpoint(c, previous) == initCheckpoint(c)

\* Variant of ShouldStop that never looks at the cancellation.
ShouldStopNever(canc) == FALSE

\* The cancellation check at the top of runLoop.
ShouldStop(canc) == canc

\* Variant of StatusAfterOpen without the Running write.
StatusAfterOpenKept(previous) == previous

\* The status written right after api.Open returns, before the switch.
StatusAfterOpen(previous) == Running

\* Variant of StatusOnPublishError without the Degraded write.
StatusOnPublishErrorKept(previous) == previous

\* The status written when publisher.Publish returns an error.
StatusOnPublishError(previous) == DegradedPublish

\* Variant of ChannelNotFoundLogLevel that looks at the status, which the
\* write after every open() has just set back to Running, instead of the flag.
ChannelNotFoundLogLevelByStatus(detected, st) ==
    IF st # DegradedChannelNotFound THEN "error" ELSE "debug"

\* Level of the channel-not-found log line of open: error first, then debug.
ChannelNotFoundLogLevel(detected, st) ==
    IF ~detected THEN "error" ELSE "debug"

\* Variant of ChannelNotFoundCase without the !api.IsFile() guard.
ChannelNotFoundCaseIgnoresIsFile(e, file) == IsChannelNotFound(e)

\* The test that guards both channel-not-found cases (open and read).
ChannelNotFoundCase(e, file) == ~file /\ IsChannelNotFound(e)

\* Variant of ClassifyOpen without the Recoverable case.
ClassifyOpenRecoverableFatal(e, file) ==
    IF e = ErrNil THEN "ok"
    ELSE IF ChannelNotFoundCase(e, file) THEN "channelNotFound"
    ELSE "fatal"

\* Variant of ClassifyOpen without the channel-not-found case.
ClassifyOpenChannelNotFoundFatal(e, file) ==
    IF IsRecoverable(e) THEN "retry"
    ELSE IF e # ErrNil THEN "fatal"
    ELSE "ok"

\* The switch on openErr.
ClassifyOpen(e, file) ==
    IF IsRecoverable(e) THEN "retry"
    ELSE IF ChannelNotFoundCase(e, file) THEN "channelNotFound"
    ELSE IF e # ErrNil THEN "fatal"
    ELSE "ok"

\* Variant of ClassifyRead that treats an empty batch as a failed read.
ClassifyReadEmptyResets(e, file, canc, n) ==
    IF IsRecoverable(e) THEN "reset"
    ELSE IF ChannelNotFoundCase(e, file) THEN "reset"
    ELSE IF e # ErrNil THEN
        IF IsEOF(e) THEN "eof"
        ELSE IF canc THEN "shutdown"
        ELSE "fatal"
    ELSE IF n = 0 THEN "reset"
    ELSE "publish"

\* Variant of ClassifyRead without the Recoverable test.
ClassifyReadRecoverableFatal(e, file, canc, n) ==
    IF ChannelNotFoundCase(e, file) THEN "reset"
    ELSE IF e # ErrNil THEN
        IF IsEOF(e) THEN "eof"
        ELSE IF canc THEN "shutdown"
        ELSE "fatal"
    ELSE IF n = 0 THEN "wait"
    ELSE "publish"

\* Variant of ClassifyRead without the shutdown test before the fatal return.
ClassifyReadIgnoresCancel(e, file, canc, n) ==
    IF IsRecoverable(e) THEN "reset"
    ELSE IF ChannelNotFoundCase(e, file) THEN "reset"
    ELSE IF e # ErrNil THEN
        IF IsEOF(e) THEN "eof"
        ELSE "fatal"
    ELSE IF n = 0 THEN "wait"
    ELSE "publish"

\* The chain of tests on the result of api.Read().
ClassifyRead(e, file, canc, n) ==
    IF IsRecoverable(e) THEN "reset"
    ELSE IF ChannelNotFoundCase(e, file) THEN "reset"
    ELSE IF e # ErrNil THEN
        IF IsEOF(e) THEN "eof"
        ELSE IF canc THEN "shutdown"
        ELSE "fatal"
    ELSE IF n = 0 THEN "wait"
    ELSE "publish"

\* Variant of PublishArgs that passes the offset of the batch's last record.
PublishArgsLastOffset(recs, i) == [event |-> recs[i].id, position |-> recs[Len(recs)].offset]

\* The arguments of publisher.Publish for the i-th record of the batch.
PublishArgs(recs, i) == [event |-> recs[i].id, position |-> recs[i].offset]

\* Variant of AfterPublish that goes on after a publish error.
AfterPublishContinuesOnError(ok, i, n) ==
    IF i < n THEN "next" ELSE "batchDone"

\* The publish loop after one Publish call: next record, batch done, or stop.
AfterPublish(ok, i, n) ==
    IF ~ok THEN "stop"
    ELSE IF i < n THEN "next"
    ELSE "batchDone"

\* ctxtool.WithFunc: the callback runs once, when the parent context is
\* cancelled or when the returned cancel function is called.
CallbackEnabled(canc, fnCalled, done) ==
    (canc \/ fnCalled) /\ ~done

\* ---------------------------------------------------------------- adapter

\* Effect of the source adapter's calls on its handle.
AdapterOpen(h, e) == IF e = ErrNil THEN TRUE ELSE h
AdapterClose(h) == FALSE
\* A successful reset releases the handle; a failed one may leave it open.
AdapterReset(h, resetOk) == IF resetOk THEN {FALSE} ELSE {h, FALSE}
\* open(checkpoint) establishes the read position right after the checkpoint.
AdapterPosition(cp) == cp + 1

\* The publisher rewrites the cursor with the position of an accepted record.
PublisherAccept(c, position) == [state |-> "ok", value |-> position]

\* ---------------------------------------------------------------- init

CursorStates ==
    {[state |-> "new", value |-> 0]}
    \cup {[state |-> s, value |-> v] : s \in {"ok", "corrupt"}, v \in 0..MaxInitCp}

\* State after the setup of Run: callback registered, flag cleared, status
\* Running written.
Init ==
    /\ pc = "check"
    /\ isFile \in BOOLEAN
    /\ cancelled = FALSE
    /\ cancelAt = "none"
    /\ cancelFnCalled = FALSE
    /\ closedAt = "none"
    /\ closeCount = 0
    /\ handleOpen = FALSE
    /\ openOnOpen = FALSE
    /\ status = Running
    /\ channelNotFoundErrDetected = FALSE
    /\ cursor \in CursorStates
    /\ evtCheckpoint = 0
    /\ err = ErrNil
    /\ records = <<>>
    /\ idx = 1
    /\ srcNext = 1
    /\ sessionRead = <<>>
    /\ sessionPub = <<>>
    /\ trace = <<Ev("status", Running, 0)>>
    /\ ret = NoRet
    /\ cnfLogLevel = "none"
    /\ usedAfterClose = FALSE
    /\ pidEvent = NoEvent
    /\ pidIn = NoPid
    /\ pidOut = NoPid
    /\ testRet = NoTest

\* ---------------------------------------------------------------- actions

\* Variant of Return without the deferred cancelFn().
ReturnWithoutCancelFn(r, t) ==
    /\ pc' = "done"
    /\ ret' = r
    /\ cancelFnCalled' = cancelFnCalled
    /\ trace' = Log(t, Ev("return", r.val, 0))

\* return r, running the deferred cancelFn().
Return(r, t) ==
    /\ pc' = "done"
    /\ ret' = r
    /\ cancelFnCalled' = TRUE
    /\ trace' = Log(t, Ev("return", r.val, 0))

\* Top of runLoop: the cancellation check.
Check ==
    /\ pc = "check"
    /\ IF ShouldStop(cancelled)
       THEN Return(RetNil, trace)
       ELSE /\ pc' = "open"
            /\ UNCHANGED <<ret, cancelFnCalled, trace>>
    /\ UNCHANGED <<isFile, cancelled, cancelAt, closedAt, closeCount, handleOpen,
                   openOnOpen, status, channelNotFoundErrDetected, cursor,
                   evtCheckpoint, err, records, idx, srcNext, sessionRead,
                   sessionPub, cnfLogLevel, usedAfterClose>>
    /\ UNCHANGED <<pidVars, testVars>>

\* initCheckpoint, api.Open, the Running write and the switch on openErr.
Open ==
    /\ pc = "open"
    /\ \E e \in OpenErrs :
        LET cp == OpenCheckpoint(cursor, evtCheckpoint)
            st == StatusAfterOpen(status)
            t1 == Log(Log(trace, Ev("open", e, cp)), Ev("status", st, 0))
            c  == ClassifyOpen(e, isFile)
        IN  /\ evtCheckpoint' = cp
            /\ openOnOpen' = (openOnOpen \/ handleOpen)
            /\ handleOpen' = AdapterOpen(handleOpen, e)
            /\ srcNext' = IF e = ErrNil THEN AdapterPosition(cp) ELSE srcNext
            /\ usedAfterClose' = (usedAfterClose \/ closedAt # "none")
            /\ CASE c = "retry" ->
                    /\ status' = st
                    /\ trace' = Log(t1, Ev("wait", "backoff", BackoffSeconds))
                    /\ pc' = "wait5"
                    /\ cnfLogLevel' = "none"
                    /\ UNCHANGED <<channelNotFoundErrDetected, ret, cancelFnCalled,
                                   sessionRead, sessionPub>>
                 [] c = "channelNotFound" ->
                    /\ cnfLogLevel' = ChannelNotFoundLogLevel(channelNotFoundErrDetected, st)
                    /\ status' = DegradedChannelNotFound
                    /\ channelNotFoundErrDetected' = TRUE
                    /\ trace' = Log(Log(t1, Ev("status", DegradedChannelNotFound, 0)),
                                    Ev("wait", "backoff", BackoffSeconds))
                    /\ pc' = "wait5"
                    /\ UNCHANGED <<ret, cancelFnCalled, sessionRead, sessionPub>>
                 [] c = "fatal" ->
                    /\ status' = DegradedOpen
                    /\ Return(RetErr("open", e), Log(t1, Ev("status", DegradedOpen, 0)))
                    /\ cnfLogLevel' = "none"
                    /\ UNCHANGED <<channelNotFoundErrDetected, sessionRead, sessionPub>>
                 [] OTHER ->
                    /\ status' = st
                    /\ channelNotFoundErrDetected' = FALSE
                    /\ trace' = t1
                    /\ pc' = "readcheck"
                    /\ sessionRead' = <<>>
                    /\ sessionPub' = <<>>
                    /\ cnfLogLevel' = "none"
                    /\ UNCHANGED <<ret, cancelFnCalled>>
    /\ UNCHANGED <<isFile, cancelled, cancelAt, closedAt, closeCount, cursor, err,
                   records, idx>>
    /\ UNCHANGED <<pidVars, testVars>>

\* timed.Wait(cancelCtx, 5s) returns, by timeout or by cancellation.
BackoffDone ==
    /\ pc = "wait5"
    /\ pc' = "check"
    /\ UNCHANGED <<isFile, cancelled, cancelAt, cancelFnCalled, closedAt, closeCount,
                   handleOpen, openOnOpen, status, channelNotFoundErrDetected,
                   cursor, evtCheckpoint, err, records, idx, srcNext, sessionRead,
                   sessionPub, trace, ret, cnfLogLevel, usedAfterClose>>
    /\ UNCHANGED <<pidVars, testVars>>

\* The read loop's condition: cancelCtx.Err() == nil.
ReadCheck ==
    /\ pc = "readcheck"
    /\ pc' = IF cancelled THEN "check" ELSE "read"
    /\ UNCHANGED <<isFile, cancelled, cancelAt, cancelFnCalled, closedAt, closeCount,
                   handleOpen, openOnOpen, status, channelNotFoundErrDetected,
                   cursor, evtCheckpoint, err, records, idx, srcNext, sessionRead,
                   sessionPub, trace, ret, cnfLogLevel, usedAfterClose>>
    /\ UNCHANGED <<pidVars, testVars>>

\* api.Read() returns an error or the next batch of the source.
Read ==
    /\ pc = "read"
    /\ \E e \in ReadErrs, n \in 0..MaxBatch :
        /\ e # ErrNil => n = 0
        /\ srcNext + n - 1 <= MaxPos
        /\ err' = e
        /\ records' = Batch(srcNext, n)
        /\ srcNext' = srcNext + n
        /\ sessionRead' = sessionRead \o Batch(srcNext, n)
        /\ trace' = Log(trace, Ev("read", e, n))
    /\ usedAfterClose' = (usedAfterClose \/ closedAt # "none")
    /\ idx' = 1
    /\ pc' = "readret"
    /\ UNCHANGED <<isFile, cancelled, cancelAt, cancelFnCalled, closedAt, closeCount,
                   handleOpen, openOnOpen, status, channelNotFoundErrDetected,
                   cursor, evtCheckpoint, sessionPub, ret, cnfLogLevel>>
    /\ UNCHANGED <<pidVars, testVars>>

\* The tests on the result of api.Read(), including the reset() call.
ReadResult ==
    /\ pc = "readret"
    /\ LET c == ClassifyRead(err, isFile, cancelled, Len(records))
       IN CASE c = "reset" ->
               \E resetOk \in BOOLEAN :
                 LET t1 == Log(trace, Ev("reset", IF resetOk THEN "ok" ELSE "fail", 0))
                     t2 == IF resetOk THEN t1 ELSE Log(t1, Ev("status", DegradedReset, 0))
                 IN /\ handleOpen' \in AdapterReset(handleOpen, resetOk)
                    /\ status' = IF resetOk THEN status ELSE DegradedReset
                    /\ trace' = t2
                    /\ pc' = "check"
                    /\ usedAfterClose' = (usedAfterClose \/ closedAt # "none")
                    /\ UNCHANGED <<ret, cancelFnCalled>>
            [] c \in {"eof", "shutdown"} ->
               /\ Return(RetNil, trace)
               /\ UNCHANGED <<status, handleOpen, usedAfterClose>>
            [] c = "fatal" ->
               /\ status' = DegradedRead
               /\ Return(RetErr("read", err), Log(trace, Ev("status", DegradedRead, 0)))
               /\ UNCHANGED <<handleOpen, usedAfterClose>>
            [] c = "wait" ->
               /\ trace' = Log(trace, Ev("wait", "poll", PollSeconds))
               /\ pc' = "wait1"
               /\ UNCHANGED <<status, handleOpen, ret, cancelFnCalled, usedAfterClose>>
            [] OTHER ->
               /\ pc' = "publish"
               /\ UNCHANGED <<status, handleOpen, ret, cancelFnCalled, trace,
                              usedAfterClose>>
    /\ UNCHANGED <<isFile, cancelled, cancelAt, closedAt, closeCount, openOnOpen,
                   channelNotFoundErrDetected, cursor, evtCheckpoint, err, records,
                   idx, srcNext, sessionRead, sessionPub, cnfLogLevel>>
    /\ UNCHANGED <<pidVars, testVars>>

\* timed.Wait(cancelCtx, 1s) returns, by timeout or by cancellation.
PollDone ==
    /\ pc = "wait1"
    /\ pc' = "readcheck"
    /\ UNCHANGED <<isFile, cancelled, cancelAt, cancelFnCalled, closedAt, closeCount,
                   handleOpen, openOnOpen, status, channelNotFoundErrDetected,
                   cursor, evtCheckpoint, err, records, idx, srcNext, sessionRead,
                   sessionPub, trace, ret, cnfLogLevel, usedAfterClose>>
    /\ UNCHANGED <<pidVars, testVars>>

\* One iteration of the publish loop; an accepted record advances the cursor.
Publish ==
    /\ pc = "publish"
    /\ \E ok \in BOOLEAN :
        LET a  == PublishArgs(records, idx)
            t1 == Log(trace, Ev("publish", IF ok THEN "ok" ELSE "fail", a.position))
            c  == AfterPublish(ok, idx, Len(records))
        IN  /\ sessionPub' = IF ok THEN Append(sessionPub, a) ELSE sessionPub
            /\ cursor' = IF ok THEN PublisherAccept(cursor, a.position) ELSE cursor
            /\ CASE c = "stop" ->
                    /\ status' = StatusOnPublishError(status)
                    /\ Return(RetErr("publish", "PublishDisconnect"),
                              Log(t1, Ev("status", StatusOnPublishError(status), 0)))
                    /\ UNCHANGED idx
                 [] c = "next" ->
                    /\ idx' = idx + 1
                    /\ trace' = t1
                    /\ UNCHANGED <<pc, status, ret, cancelFnCalled>>
                 [] OTHER ->
                    /\ idx' = idx + 1
                    /\ pc' = "readcheck"
                    /\ trace' = t1
                    /\ UNCHANGED <<status, ret, cancelFnCalled>>
    /\ UNCHANGED <<isFile, cancelled, cancelAt, closedAt, closeCount, handleOpen,
                   openOnOpen, channelNotFoundErrDetected, evtCheckpoint, err,
                   records, srcNext, sessionRead, cnfLogLevel, usedAfterClose>>
    /\ UNCHANGED <<pidVars, testVars>>

\* The cancellation signal is raised (ctx.Cancelation is done).
Cancel ==
    /\ pc # "done"
    /\ ~cancelled
    /\ cancelled' = TRUE
    /\ cancelAt' = pc
    /\ UNCHANGED <<pc, isFile, cancelFnCalled, closedAt, closeCount, handleOpen,
                   openOnOpen, status, channelNotFoundErrDetected, cursor,
                   evtCheckpoint, err, records, idx, srcNext, sessionRead,
                   sessionPub, trace, ret, cnfLogLevel, usedAfterClose>>
    /\ UNCHANGED <<pidVars, testVars>>

\* The callback registered with WithFunc runs: api.Close().
CloseCallback ==
    /\ CallbackEnabled(cancelled, cancelFnCalled, closedAt # "none")
    /\ closedAt' = pc
    /\ closeCount' = closeCount + 1
    /\ handleOpen' = AdapterClose(handleOpen)
    /\ UNCHANGED <<pc, isFile, cancelled, cancelAt, cancelFnCalled, openOnOpen,
                   status, channelNotFoundErrDetected, cursor, evtCheckpoint, err,
                   records, idx, srcNext, sessionRead, sessionPub, trace, ret,
                   cnfLogLevel, usedAfterClose>>
    /\ UNCHANGED <<pidVars, testVars>>

Next ==
    \/ Check
    \/ Open
    \/ BackoffDone
    \/ ReadCheck
    \/ Read
    \/ ReadResult
    \/ PollDone
    \/ Publish
    \/ Cancel
    \/ CloseCallback

Spec == Init /\ [][Next]_vars

\* The steps of the goroutine that executes Run.
RunnerStep ==
    \/ Check
    \/ Open
    \/ BackoffDone
    \/ ReadCheck
    \/ Read
    \/ ReadResult
    \/ PollDone
    \/ Publish

\* The Runner's goroutine keeps being scheduled, every call it makes returns
\* and every wait ends; the callback of a raised signal is run.
FairSpec == Spec /\ WF_vars(RunnerStep) /\ WF_vars(CloseCallback)

\* ---------------------------------------------------------------- pid

\* Integers wider than the checker's own are kept as their magnitude in
\* 16-bit limbs, least significant first, without leading zero limbs, with a
\* sign beside it.
LimbBase == 65536

\* Longest string of the exhaustive part of the string inputs.
MaxPidLen == 2

Num(neg, mag) == [neg |-> neg /\ mag # <<>>, mag |-> mag]

\* limbs * m + c, for m and c below the limb base.
RECURSIVE MulAdd(_, _, _)
MulAdd(limbs, m, c) ==
    IF limbs = <<>> THEN (IF c = 0 THEN <<>> ELSE <<c>>)
    ELSE LET t == Head(limbs) * m + c
         IN  <<t % LimbBase>> \o MulAdd(Tail(limbs), m, t \div LimbBase)

\* Drops the zero limbs at the most significant end.
RECURSIVE Normalize(_)
Normalize(limbs) ==
    IF limbs = <<>> THEN <<>>
    ELSE IF limbs[Len(limbs)] = 0 THEN Normalize(SubSeq(limbs, 1, Len(limbs) - 1))
    ELSE limbs

\* a <= b for two magnitudes.
RECURSIVE MagLeq(_, _)
MagLeq(a, b) ==
    IF Len(a) # Len(b) THEN Len(a) < Len(b)
    ELSE IF a = <<>> THEN TRUE
    ELSE IF a[Len(a)] # b[Len(b)] THEN a[Len(a)] < b[Len(b)]
    ELSE MagLeq(SubSeq(a, 1, Len(a) - 1), SubSeq(b, 1, Len(b) - 1))

\* The limb of weight LimbBase^(k-1) of a magnitude.
Limb(mag, k) == IF k <= Len(mag) THEN mag[k] ELSE 0

\* The largest int (of 64 bits) and the magnitude of the smallest.
MaxInt64 == <<65535, 65535, 65535, 32767>>
MinInt64Mag == <<0, 0, 0, 32768>>

DigitChars == <<"0", "1", "2", "3", "4", "5", "6", "7", "8", "9">>
IsDigit(c) == \E d \in 1..10 : DigitChars[d] = c
DigitVal(c) == (CHOOSE d \in 1..10 : DigitChars[d] = c) - 1

\* The magnitude a sequence of decimal digits denotes.
RECURSIVE Magnitude(_)
Magnitude(digits) ==
    IF digits = <<>> THEN <<>>
    ELSE MulAdd(Magnitude(SubSeq(digits, 1, Len(digits) - 1)), 10,
                DigitVal(digits[Len(digits)]))

\* strconv.Atoi: an optional sign, then one or more decimal digits, the
\* value within the range of int.
Atoi(chars) ==
    LET signed == chars # <<>> /\ chars[1] \in {"+", "-"}
        digits == IF signed THEN Tail(chars) ELSE chars
        neg    == signed /\ chars[1] = "-"
        mag    == Magnitude(digits)
    IN  IF digits = <<>> \/ \E k \in 1..Len(digits) : ~IsDigit(digits[k])
        THEN [err |-> "syntax", val |-> Num(FALSE, <<>>)]
        ELSE IF ~MagLeq(mag, IF neg THEN MinInt64Mag ELSE MaxInt64)
        THEN [err |-> "range", val |-> Num(FALSE, <<>>)]
        ELSE [err |-> ErrNil, val |-> Num(neg, mag)]

\* uint32(v): the low 32 bits of the two's complement of v, as a magnitude.
ToUint32(v) ==
    LET l0 == Limb(v.mag, 1)
        l1 == Limb(v.mag, 2)
    IN  IF ~v.neg THEN Normalize(<<l0, l1>>)
        ELSE Normalize(<<(LimbBase - l0) % LimbBase,
                         IF l0 = 0 THEN (LimbBase - l1) % LimbBase
                         ELSE LimbBase - 1 - l1>>)

SignedTypes == {"int", "int8", "int16", "int32", "int64"}
UnsignedTypes == {"uint", "uintptr", "uint8", "uint16", "uint64"}
OtherTypes == {"float64", "bool", "nil"}

PidOk(pid) == [err |-> ErrNil, pid |-> pid]
\* Run returned before the conversion.
PidNotConverted == [err |-> "not converted", pid |-> <<>>]
PidErr(e) == [err |-> e, pid |-> <<>>]

\* pidToUInt32: the type switch on the PID value.
pidToUInt32(in) ==
    CASE in.type = "string" ->
            LET nr == Atoi(in.chars)
            IN  IF nr.err # ErrNil THEN PidErr("convert")
                ELSE PidOk(ToUint32(nr.val))
      [] in.type = "uint32" -> PidOk(in.val.mag)
      [] in.type \in SignedTypes \cup UnsignedTypes ->
            IF Num(FALSE, ToUint32(in.val)) # in.val THEN PidErr("range")
            ELSE PidOk(ToUint32(in.val))
      [] OTHER -> PidErr("type")

\* The widest magnitude each integer type holds.
TypeMax(t) ==
    CASE t = "int8" -> <<127>>
      [] t = "uint8" -> <<255>>
      [] t = "int16" -> <<32767>>
      [] t = "uint16" -> <<65535>>
      [] t = "int32" -> <<65535, 32767>>
      [] t = "uint32" -> <<65535, 65535>>
      [] t \in {"int", "int64"} -> MaxInt64
      [] OTHER -> <<65535, 65535, 65535, 65535>>

\* v is a value of integer type t.
InType(t, v) ==
    IF v.neg THEN t \in SignedTypes /\ MagLeq(v.mag, MulAdd(TypeMax(t), 1, 1))
    ELSE MagLeq(v.mag, TypeMax(t))

\* Magnitudes around the edges of the integer types.
SampleMags ==
    {<<>>, <<1>>, <<127>>, <<128>>, <<255>>, <<256>>, <<32767>>, <<32768>>,
     <<65535>>, <<0, 1>>, <<65535, 32767>>, <<0, 32768>>, <<65535, 65535>>,
     <<0, 0, 1>>, <<1, 0, 1>>, <<65535, 65535, 65535, 32767>>,
     <<0, 0, 0, 32768>>, <<65535, 65535, 65535, 65535>>}

\* Characters of the exhaustive part of the string inputs: signs, digits and
\* one character that is neither.
PidChars == {"-", "+", "0", "1", "9", "a"}

RECURSIVE StringsUpTo(_)
StringsUpTo(n) ==
    IF n = 0 THEN {<<>>}
    ELSE LET shorter == StringsUpTo(n - 1)
         IN  shorter \cup {Append(w, c) : w \in {x \in shorter : Len(x) = n - 1},
                                          c \in PidChars}

\* Decimal strings around the edges of uint32, int32 and int64.
EdgeStrings ==
    {<<"6", "5", "5", "3", "6">>,
     <<"0", "0", "0", "4", "2">>,
     <<"-", "4", "2">>,
     <<"2", "1", "4", "7", "4", "8", "3", "6", "4", "8">>,
     <<"-", "2", "1", "4", "7", "4", "8", "3", "6", "4", "8">>,
     <<"4", "2", "9", "4", "9", "6", "7", "2", "9", "5">>,
     <<"4", "2", "9", "4", "9", "6", "7", "2", "9", "6">>,
     <<"4", "2", "9", "4", "9", "6", "7", "2", "9", "7">>,
     <<"-", "4", "2", "9", "4", "9", "6", "7", "2", "9", "5">>,
     <<"-", "4", "2", "9", "4", "9", "6", "7", "2", "9", "6">>,
     <<"9", "2", "2", "3", "3", "7", "2", "0", "3", "6", "8", "5", "4", "7", "7", "5", "8", "0", "7">>,
     <<"9", "2", "2", "3", "3", "7", "2", "0", "3", "6", "8", "5", "4", "7", "7", "5", "8", "0", "8">>,
     <<"-", "9", "2", "2", "3", "3", "7", "2", "0", "3", "6", "8", "5", "4", "7", "7", "5", "8", "0", "8">>,
     <<"-", "9", "2", "2", "3", "3", "7", "2", "0", "3", "6", "8", "5", "4", "7", "7", "5", "8", "0", "9">>,
     <<"1", "8", "4", "4", "6", "7", "4", "4", "0", "7", "3", "7", "0", "9", "5", "5", "1", "6", "1", "6">>}

PidValue(t, chars, v) == [type |-> t, chars |-> chars, val |-> v]

\* The PID values of an event: strings, integers of every type, and values
\* of other types.
PidInputs ==
    {PidValue("string", w, Num(FALSE, <<>>)) : w \in StringsUpTo(MaxPidLen) \cup EdgeStrings}
    \cup {PidValue(q[1], <<>>, q[2]) :
            q \in {x \in (SignedTypes \cup UnsignedTypes \cup {"uint32"})
                          \X {Num(n, m) : n \in BOOLEAN, m \in SampleMags} :
                      InType(x[1], x[2])}}
    \cup {PidValue(t, <<>>, Num(FALSE, <<>>)) : t \in OtherTypes}

\* What auditd.result holds in an event: nothing, "fail", or another value.
AuditResults == {"absent", "fail", "success"}

\* The events by the two fields Run looks at before the conversion.
PidEvents == [hasPid : BOOLEAN, result : AuditResults]

\* An event with some PID value reaches the processor; the Runner has not
\* started.
PidInit ==
    /\ pc = "check"
    /\ isFile = FALSE
    /\ cancelled = FALSE
    /\ cancelAt = "none"
    /\ cancelFnCalled = FALSE
    /\ closedAt = "none"
    /\ closeCount = 0
    /\ handleOpen = FALSE
    /\ openOnOpen = FALSE
    /\ status = Running
    /\ channelNotFoundErrDetected = FALSE
    /\ cursor = [state |-> "new", value |-> 0]
    /\ evtCheckpoint = 0
    /\ err = ErrNil
    /\ records = <<>>
    /\ idx = 1
    /\ srcNext = 1
    /\ sessionRead = <<>>
    /\ sessionPub = <<>>
    /\ trace = <<Ev("status", Running, 0)>>
    /\ ret = NoRet
    /\ cnfLogLevel = "none"
    /\ usedAfterClose = FALSE
    /\ pidEvent \in PidEvents
    /\ pidIn \in PidInputs
    /\ pidOut = NoPid
    /\ testRet = NoTest

\* The processor leaves the Runner and the source alone.
PidFrame ==
    UNCHANGED <<pc, isFile, cancelled, cancelAt, cancelFnCalled, closedAt,
                closeCount, handleOpen, openOnOpen, status,
                channelNotFoundErrDetected, cursor, evtCheckpoint, err, records,
                idx, srcNext, sessionRead, sessionPub, trace, ret, cnfLogLevel,
                usedAfterClose, pidEvent, pidIn, testRet>>

\* addSessionMetadata.Run on an event without the PID field: the event is
\* returned as it is, pidToUInt32 is not called.
SkipNoPid ==
    /\ pidIn # NoPid
    /\ pidOut = NoPid
    /\ ~pidEvent.hasPid
    /\ pidOut' = PidNotConverted
    /\ PidFrame

\* addSessionMetadata.Run on the event of a failed syscall: the event is
\* returned as it is, pidToUInt32 is not called.
SkipFailedSyscall ==
    /\ pidIn # NoPid
    /\ pidOut = NoPid
    /\ pidEvent.hasPid
    /\ pidEvent.result = "fail"
    /\ pidOut' = PidNotConverted
    /\ PidFrame

\* addSessionMetadata.Run converts the PID value of any other event.
ConvertPid ==
    /\ pidIn # NoPid
    /\ pidOut = NoPid
    /\ pidEvent.hasPid
    /\ pidEvent.result # "fail"
    /\ pidOut' = pidToUInt32(pidIn)
    /\ PidFrame

PidNext ==
    \/ SkipNoPid
    \/ SkipFailedSyscall
    \/ ConvertPid

PidSpec == PidInit /\ [][PidNext]_vars

\* ---------------------------------------------------------------- test

\* Number of times the self-test is run on one source.
MaxTests == 2

\* The source as eventlog.New left it; Run has not started.
TestInit ==
    /\ pc = "check"
    /\ isFile \in BOOLEAN
    /\ cancelled = FALSE
    /\ cancelAt = "none"
    /\ cancelFnCalled = FALSE
    /\ closedAt = "none"
    /\ closeCount = 0
    /\ handleOpen = FALSE
    /\ openOnOpen = FALSE
    /\ status = Running
    /\ channelNotFoundErrDetected = FALSE
    /\ cursor \in CursorStates
    /\ evtCheckpoint = 0
    /\ err = ErrNil
    /\ records = <<>>
    /\ idx = 1
    /\ srcNext = 1
    /\ sessionRead = <<>>
    /\ sessionPub = <<>>
    /\ trace = <<>>
    /\ ret = NoRet
    /\ cnfLogLevel = "none"
    /\ usedAfterClose = FALSE
    /\ pidEvent = NoEvent
    /\ pidIn = NoPid
    /\ pidOut = NoPid
    /\ testRet = NoTest

\* The number of self-tests run so far: each one starts with its open().
TestsRun == Cardinality({i \in 1..Len(trace) : trace[i].op = "open"})

\* eventlogRunner.Test: open the source with the empty checkpoint and, when
\* that succeeds, close it and return what close() returned. No cursor is
\* read, no status is written, the open error is not classified.
Test ==
    /\ TestsRun < MaxTests
    /\ \E e \in OpenErrs, closeOk \in BOOLEAN :
        LET t1 == Append(trace, Ev("open", e, 0))
        IN  /\ openOnOpen' = (openOnOpen \/ handleOpen)
            /\ IF e # ErrNil
               THEN /\ testRet' = "failed to open"
                    /\ handleOpen' = AdapterOpen(handleOpen, e)
                    /\ trace' = t1
                    /\ UNCHANGED closeCount
               ELSE /\ testRet' = IF closeOk THEN "nil" ELSE "close error"
                    /\ handleOpen' = AdapterClose(AdapterOpen(handleOpen, e))
                    /\ closeCount' = closeCount + 1
                    /\ trace' = Append(t1, Ev("close", IF closeOk THEN "ok" ELSE "fail", 0))
    /\ UNCHANGED <<pc, isFile, cancelled, cancelAt, cancelFnCalled, closedAt, status,
                   channelNotFoundErrDetected, cursor, evtCheckpoint, err, records,
                   idx, srcNext, sessionRead, sessionPub, ret, cnfLogLevel,
                   usedAfterClose>>
    /\ UNCHANGED pidVars

TestNext == Test

TestSpec == TestInit /\ [][TestNext]_vars

\* ---------------------------------------------------------------- properties

\* Positions of the Runner that belong to Opening, Reading and Waiting.
OpeningPcs == {"check", "open"}
ReadingPcs == {"readcheck", "read", "readret"}
WaitingPcs == {"wait5", "wait1"}

\* The i-th entry of the recorded history exists.
Has(i) == i >= 1 /\ i <= Len(trace)

\* The entry that ends a cancelled run: return nil after the signal.
CancelledReturn(e) == e = Ev("return", "nil", 0) /\ cancelled

\* The records of the current batch that were not yet accepted by publish().
Pending == SubSeq(records, idx, Len(records))

\* C1: whenever the cancellation signal was raised while the Runner was in
\* Opening, Reading or Waiting, Run returns nil and close() is invoked
\* exactly once.
C1_CancelReturnsNil ==
    (pc = "done" /\ cancelAt \in OpeningPcs \cup ReadingPcs \cup WaitingPcs)
        => /\ ret.val = "nil"
           /\ closeCount <= 1
           /\ (closedAt # "none" => closeCount = 1)

\* C2: close() is never invoked twice, it is invoked once as soon as the
\* callback has run, and after Run has returned it either has been invoked
\* or its one invocation is due (the callback is enabled).
C2_CloseExactlyOnce ==
    /\ closeCount <= 1
    /\ (closedAt # "none" <=> closeCount = 1)
    /\ (pc = "done" =>
            \/ closeCount = 1
            \/ CallbackEnabled(cancelled, cancelFnCalled, closedAt # "none"))

\* C2 witness: the callback closed the source while the Runner was still
\* running, and Run has since returned through its deferred cancelFn.
C2_Witness ==
    /\ pc = "done"
    /\ cancelFnCalled
    /\ closedAt \notin {"none", "done"}
    /\ closeCount = 1

\* C3: open() is never applied to a handle that is still open, and once Run
\* has returned and close() has executed no handle is left open.
C3_SingleHandle ==
    /\ ~openOnOpen
    /\ (pc = "done" /\ closeCount = 1 => ~handleOpen)

\* C4: the accepted publish() calls of a session are, in order, the records
\* read in that session, each with its own position; what was read and is
\* not yet published is exactly the unpublished rest of the current batch.
C4_PublishInOrder ==
    /\ Len(sessionPub) + Len(Pending) = Len(sessionRead)
    /\ \A k \in 1..Len(sessionPub) :
          sessionPub[k] = [event |-> sessionRead[k].id,
                           position |-> sessionRead[k].offset]
    /\ \A k \in 1..Len(Pending) : Pending[k] = sessionRead[Len(sessionPub) + k]

\* C4 witness: a second batch has been published in full after a first one.
C4_Witness ==
    /\ pc = "readcheck"
    /\ Len(records) = 2
    /\ Len(sessionPub) = 3

\* C5: a failed publish() is followed by the Degraded write and the return
\* of the error and by nothing else; the rest of the batch stays unpublished.
C5_PublishErrorStops ==
    /\ \A i \in 1..Len(trace) :
          (trace[i].op = "publish" /\ trace[i].res = "fail") =>
              /\ Has(i + 1) /\ trace[i + 1] = Ev("status", DegradedPublish, 0)
              /\ Has(i + 2) /\ trace[i + 2] = Ev("return", "err", 0)
              /\ ~Has(i + 3)
    /\ \A i \in 1..Len(trace) : trace[i].op = "return" => i = Len(trace)
    /\ (ret.from = "publish" =>
              /\ pc = "done"
              /\ ret.val = "err"
              /\ status = DegradedPublish
              /\ Pending # <<>>
              /\ \A k \in 1..Len(Pending) : \A j \in 1..Len(sessionPub) :
                    sessionPub[j].position # Pending[k].offset)

\* C5 witness: the first record of a batch of two was refused, so the
\* second one is never published.
C5_Witness ==
    /\ ret.from = "publish"
    /\ idx = 1
    /\ Len(records) = 2
    /\ trace[Len(trace)] = Ev("return", "err", 0)

\* The entry that continues the outer loop after a retry-worthy condition:
\* the next open(), or the nil return of a cancelled run.
Reopens(e) == e.op = "open" \/ CancelledReturn(e)

\* C6: an empty read() is followed by the 1-second poll wait and then by
\* the next read() (or by the nil return of a cancelled run), with no
\* publish(), open(), reset() or status write in between.
C6_EmptyReadPolls ==
    \A i \in 1..Len(trace) :
        trace[i] = Ev("read", ErrNil, 0) =>
            /\ (Has(i + 1) => trace[i + 1] = Ev("wait", "poll", PollSeconds))
            /\ (Has(i + 2) => trace[i + 2].op = "read" \/ CancelledReturn(trace[i + 2]))

\* C6 witness: an empty read(), the poll wait, and the read() after it.
C6_Witness ==
    \E i \in 1..Len(trace) :
        /\ trace[i] = Ev("read", ErrNil, 0)
        /\ Has(i + 2)
        /\ trace[i + 2].op = "read"
        /\ ~cancelled

\* C7: a Recoverable open() error is followed by the Running write, the
\* 5-second wait and then the next open() (or the nil return of a
\* cancelled run): never by read() and never by an error return.
C7_RecoverableOpenRetries ==
    /\ \A i \in 1..Len(trace) :
        (trace[i].op = "open" /\ IsRecoverable(trace[i].res)) =>
            /\ Has(i + 1) /\ trace[i + 1] = Ev("status", Running, 0)
            /\ Has(i + 2) /\ trace[i + 2] = Ev("wait", "backoff", BackoffSeconds)
            /\ (Has(i + 3) => Reopens(trace[i + 3]))
    /\ (pc = "wait5" => ret = NoRet)

\* C7 witness: two consecutive Recoverable results of open(), the second
\* one after the backoff wait, with no cancellation.
C7_Witness ==
    \E i \in 1..Len(trace) :
        /\ trace[i].op = "open" /\ IsRecoverable(trace[i].res)
        /\ Has(i + 3)
        /\ trace[i + 3].op = "open" /\ IsRecoverable(trace[i + 3].res)
        /\ ~cancelled

\* The read() errors that take the reset-then-reopen path.
ResetWorthy(e) == IsRecoverable(e) \/ (~isFile /\ IsChannelNotFound(e))

\* C8: a Recoverable read() error, or channel-not-found on a non-file
\* source, is followed by one reset(); a failed reset() by the Degraded
\* write with the reset message, a successful one by no status write; then
\* comes the next open() (or the nil return of a cancelled run).
C8_ReadErrorResetsAndReopens ==
    \A i \in 1..Len(trace) :
        (trace[i].op = "read" /\ ResetWorthy(trace[i].res)) =>
            (Has(i + 1) =>
                /\ trace[i + 1].op = "reset"
                /\ (trace[i + 1].res = "ok" =>
                        (Has(i + 2) => Reopens(trace[i + 2])))
                /\ (trace[i + 1].res = "fail" =>
                        /\ Has(i + 2) /\ trace[i + 2] = Ev("status", DegradedReset, 0)
                        /\ (Has(i + 3) => Reopens(trace[i + 3]))))

\* C8 witness: read() failed with a Recoverable error, reset() failed too,
\* and open() was called again.
C8_Witness ==
    \E i \in 1..Len(trace) :
        /\ trace[i] = Ev("read", "Recoverable", 0)
        /\ Has(i + 3)
        /\ trace[i + 1] = Ev("reset", "fail", 0)
        /\ trace[i + 3].op = "open"

\* C9: on a non-file source a channel-not-found open() error is followed by
\* the Running write, the Degraded write with the channel-not-found message,
\* the 5-second wait (status still Degraded) and then the next open() (or
\* the nil return of a cancelled run).
C9_ChannelNotFoundOpenRetries ==
    /\ \A i \in 1..Len(trace) :
        (trace[i].op = "open" /\ ~isFile /\ IsChannelNotFound(trace[i].res)) =>
            /\ Has(i + 1) /\ trace[i + 1] = Ev("status", Running, 0)
            /\ Has(i + 2) /\ trace[i + 2] = Ev("status", DegradedChannelNotFound, 0)
            /\ Has(i + 3) /\ trace[i + 3] = Ev("wait", "backoff", BackoffSeconds)
            /\ (Has(i + 4) => Reopens(trace[i + 4]))
    /\ (pc = "wait5" /\ Len(trace) >= 2
          /\ trace[Len(trace) - 1] = Ev("status", DegradedChannelNotFound, 0)
            => status = DegradedChannelNotFound)

\* C9 witness: the channel was not found twice in a row, and the Runner is
\* in its second backoff wait.
C9_Witness ==
    /\ pc = "wait5"
    /\ ~cancelled
    /\ status = DegradedChannelNotFound
    /\ \E i \in 1..Len(trace) :
          /\ trace[i].op = "open" /\ IsChannelNotFound(trace[i].res)
          /\ Has(i + 4)
          /\ trace[i + 4].op = "open" /\ IsChannelNotFound(trace[i + 4].res)
          /\ Has(i + 7)

\* C10: on a file source a channel-not-found error is fatal: from open() it
\* is followed by the Running write, the Degraded write and the error
\* return; from read() by no reset(), but by the nil return of a cancelled
\* run or by the Degraded write and the error return.
C10_FileChannelNotFoundIsFatal ==
    \A i \in 1..Len(trace) :
        /\ (trace[i].op = "open" /\ isFile /\ IsChannelNotFound(trace[i].res)) =>
              /\ Has(i + 1) /\ trace[i + 1] = Ev("status", Running, 0)
              /\ Has(i + 2) /\ trace[i + 2] = Ev("status", DegradedOpen, 0)
              /\ Has(i + 3) /\ trace[i + 3] = Ev("return", "err", 0)
              /\ ~Has(i + 4)
              /\ ret = RetErr("open", trace[i].res)
        /\ (trace[i].op = "read" /\ isFile /\ IsChannelNotFound(trace[i].res)) =>
              /\ (Has(i + 1) =>
                    \/ CancelledReturn(trace[i + 1])
                    \/ /\ trace[i + 1] = Ev("status", DegradedRead, 0)
                       /\ Has(i + 2) /\ trace[i + 2] = Ev("return", "err", 0)
                       /\ ret = RetErr("read", trace[i].res))
              /\ ~Has(i + 3)

\* C10 witness: a file source whose read() failed with channel-not-found,
\* with no cancellation, and Run returned that error.
C10_Witness ==
    /\ isFile
    /\ ~cancelled
    /\ ret = RetErr("read", "ChannelNotFound")
    /\ Len(trace) >= 3
    /\ trace[Len(trace) - 2].op = "read"

\* ---------------------------------------------------------------- C11..C20

\* The index of the most recent open() in the recorded history t.
LastOpen(t) ==
    CHOOSE i \in 1..Len(t) :
        t[i].op = "open" /\ \A j \in (i + 1)..Len(t) : t[j].op # "open"

\* C11: every open attempt hands open() the zero checkpoint when the cursor
\* is new or its Unpack fails, and the unpacked checkpoint otherwise; the
\* open() is always made, and Run returns an error from this step only with
\* the error open() itself returned.
C11_CheckpointForOpen ==
    [][(pc = "open" /\ pc' # "open") =>
          /\ evtCheckpoint' = IF cursor.state \in {"new", "corrupt"}
                              THEN 0 ELSE cursor.value
          /\ \E i \in 1..Len(trace') : trace'[i].op = "open"
          /\ trace'[LastOpen(trace')].n = evtCheckpoint'
          /\ (ret'.val = "err" =>
                /\ ret'.from = "open"
                /\ ret'.err = trace'[LastOpen(trace')].res
                /\ ret'.err # ErrNil)]_vars

\* C11 witness: the stored checkpoint 1 could not be unpacked, open() was
\* called with the zero checkpoint and succeeded, and Run reads on.
C11_Witness ==
    /\ cursor = [state |-> "corrupt", value |-> 1]
    /\ pc = "read"
    /\ evtCheckpoint = 0
    /\ trace[LastOpen(trace)] = Ev("open", ErrNil, 0)

\* C12: an error Run returns comes from a fatal open(), a fatal read() or a
\* publish(); it is never a Recoverable error, never a channel-not-found
\* error of a non-file source, and never the end of the stream.
C12_RecoverableNeverSurfaced ==
    ret.val = "err" =>
        /\ ret.from \in {"open", "read", "publish"}
        /\ ret.err # ErrNil
        /\ (ret.from \in {"open", "read"} =>
              /\ ~IsRecoverable(ret.err)
              /\ ~(~isFile /\ IsChannelNotFound(ret.err)))
        /\ (ret.from = "open" =>
              trace[Len(trace) - 3] = Ev("open", ret.err, evtCheckpoint))
        /\ (ret.from = "read" =>
              /\ ~IsEOF(ret.err)
              /\ trace[Len(trace) - 2] = Ev("read", ret.err, 0))

\* C12 witness: a Recoverable open() error and a Recoverable read() error
\* were absorbed, and a later fatal open() error was returned.
C12_Witness ==
    /\ ret = RetErr("open", "Other")
    /\ \E i, j \in 1..Len(trace) :
          /\ i < j
          /\ trace[i] = Ev("read", "Recoverable", 0)
          /\ trace[j].op = "open" /\ trace[j].res = "Recoverable"

\* The read() errors that end the run.
EndsRun(e) == e # ErrNil /\ ~ResetWorthy(e)

\* C13: the end of the stream is followed by the nil return and nothing
\* else; any other terminal read() error is followed either by the nil
\* return of a cancelled run, or, with no cancellation seen, by the Degraded
\* write and the return of that error; no call follows in any case.
C13_TerminalReadErrors ==
    \A i \in 1..Len(trace) :
        (trace[i].op = "read" /\ EndsRun(trace[i].res) /\ Has(i + 1)) =>
            IF IsEOF(trace[i].res)
            THEN /\ trace[i + 1] = Ev("return", "nil", 0)
                 /\ ~Has(i + 2)
                 /\ ret = RetNil
            ELSE \/ /\ CancelledReturn(trace[i + 1])
                    /\ ~Has(i + 2)
                    /\ ret = RetNil
                 \/ /\ trace[i + 1] = Ev("status", DegradedRead, 0)
                    /\ Has(i + 2) /\ trace[i + 2] = Ev("return", "err", 0)
                    /\ ~Has(i + 3)
                    /\ ret = RetErr("read", trace[i].res)
                    /\ status = DegradedRead
                    /\ ~cancelled

\* C13 witness: one record was read and published, the next read() met the
\* end of the stream, and Run returned nil with that one publish.
C13_Witness ==
    /\ ret = RetNil
    /\ ~cancelled
    /\ status = Running
    /\ Len(sessionPub) = 1
    /\ Len(trace) >= 4
    /\ trace[Len(trace) - 3] = Ev("read", ErrNil, 1)
    /\ trace[Len(trace) - 2].op = "publish" /\ trace[Len(trace) - 2].res = "ok"
    /\ trace[Len(trace) - 1] = Ev("read", "EOF", 0)
    /\ trace[Len(trace)] = Ev("return", "nil", 0)

\* C14: every open() is followed at once by the Running write, whatever it
\* returned and whatever status the previous iteration left; in the backoff
\* wait after a Recoverable open() error the status is Running, and after a
\* non-file channel-not-found error it is Degraded again.
C14_RunningAfterEveryOpen ==
    /\ \A i \in 1..Len(trace) :
          trace[i].op = "open" =>
              /\ Has(i + 1) /\ trace[i + 1] = Ev("status", Running, 0)
              /\ (ChannelNotFoundCase(trace[i].res, isFile) =>
                    Has(i + 2) /\ trace[i + 2] = Ev("status", DegradedChannelNotFound, 0))
    /\ (pc = "wait5" =>
          /\ (IsRecoverable(trace[LastOpen(trace)].res) => status = Running)
          /\ (ChannelNotFoundCase(trace[LastOpen(trace)].res, isFile) =>
                status = DegradedChannelNotFound))

\* C14 witness: the channel was not found twice in a row, so the status
\* went Degraded, Running, Degraded; then a Recoverable open() error left
\* the Runner in its backoff wait with status Running.
C14_Witness ==
    /\ pc = "wait5"
    /\ status = Running
    /\ \E i \in 1..Len(trace) :
          /\ Has(i + 7)
          /\ trace[i] = Ev("status", DegradedChannelNotFound, 0)
          /\ trace[i + 2].op = "open"
          /\ trace[i + 3] = Ev("status", Running, 0)
          /\ trace[i + 4] = Ev("status", DegradedChannelNotFound, 0)
          /\ trace[i + 6] = Ev("open", "Recoverable", trace[i + 6].n)
          /\ trace[i + 7] = Ev("status", Running, 0)

\* The entries that tell what the already-reported flag is: a successful
\* open() clears it, a channel-not-found open() error of a non-file source
\* sets it, and the Degraded write of that case is written by no other.
Decisive(e) ==
    \/ e.op = "open" /\ (e.res = ErrNil \/ ChannelNotFoundCase(e.res, isFile))
    \/ e = Ev("status", DegradedChannelNotFound, 0)

\* The most recent entry before index i of the history that is decisive, or
\* 0 when the recorded history has none.
LastDecisiveBefore(i) ==
    IF \E j \in 1..(i - 1) : Decisive(trace[j])
    THEN CHOOSE j \in 1..(i - 1) :
            Decisive(trace[j]) /\ \A k \in (j + 1)..(i - 1) : ~Decisive(trace[k])
    ELSE 0

\* The recorded history still starts with the start of Run.
WholeHistory == Len(trace) < MaxTrace

\* The level the channel-not-found line of the open() at index i must have;
\* "any" when the recorded history does not reach back far enough to tell.
ExpectedLevel(i) ==
    LET j == LastDecisiveBefore(i)
    IN  IF j # 0 THEN (IF trace[j].res = ErrNil THEN "error" ELSE "debug")
        ELSE IF WholeHistory THEN "error"
        ELSE "any"

\* C15: the flag is false at start, true after a channel-not-found open()
\* error of a non-file source and false after a successful open(), whatever
\* Recoverable open() errors, waits and read-phase errors came in between;
\* a channel-not-found open() error is logged at error level when no other
\* has occurred since the last successful open() (or the start), and at
\* debug level otherwise; no other open() writes that line.
C15_StickyChannelNotFoundFlag ==
    LET d == LastDecisiveBefore(Len(trace) + 1)
        o == IF \E i \in 1..Len(trace) : trace[i].op = "open"
             THEN LastOpen(trace) ELSE 0
    IN  /\ (d # 0 => channelNotFoundErrDetected = (trace[d].res # ErrNil))
        /\ (d = 0 /\ WholeHistory => ~channelNotFoundErrDetected)
        /\ (o # 0 /\ ChannelNotFoundCase(trace[o].res, isFile) =>
              /\ cnfLogLevel \in {"error", "debug"}
              /\ ExpectedLevel(o) \in {"any", cnfLogLevel})
        /\ (o # 0 /\ ~ChannelNotFoundCase(trace[o].res, isFile) =>
              cnfLogLevel = "none")
        /\ (o = 0 /\ WholeHistory => cnfLogLevel = "none")

\* C15 witness: channel not found (its Degraded write and its wait are still
\* in the history), then a Recoverable open() error, then channel not found
\* again: the second one is logged at debug level.
C15_Witness ==
    /\ cnfLogLevel = "debug"
    /\ channelNotFoundErrDetected
    /\ \E i \in 1..Len(trace) :
          /\ Has(i + 8)
          /\ trace[i] = Ev("status", DegradedChannelNotFound, 0)
          /\ trace[i + 1] = Ev("wait", "backoff", BackoffSeconds)
          /\ trace[i + 2].op = "open" /\ IsRecoverable(trace[i + 2].res)
          /\ trace[i + 3] = Ev("status", Running, 0)
          /\ trace[i + 4] = Ev("wait", "backoff", BackoffSeconds)
          /\ trace[i + 5].op = "open" /\ IsChannelNotFound(trace[i + 5].res)
          /\ trace[i + 6] = Ev("status", Running, 0)
          /\ trace[i + 7] = Ev("status", DegradedChannelNotFound, 0)
          /\ i + 5 = LastOpen(trace)

\* The most recent publish() before index i of the history that was
\* accepted, or 0 when the recorded history has none.
LastAcceptedBefore(i) ==
    IF \E j \in 1..(i - 1) : trace[j].op = "publish" /\ trace[j].res = "ok"
    THEN CHOOSE j \in 1..(i - 1) :
            /\ trace[j].op = "publish" /\ trace[j].res = "ok"
            /\ \A k \in (j + 1)..(i - 1) :
                  ~(trace[k].op = "publish" /\ trace[k].res = "ok")
    ELSE 0

\* C16: every open() gets a checkpoint read afresh from the cursor: it is
\* the position of the last record publish() accepted before it, or the
\* initial checkpoint when publish() accepted none; the checkpoints of
\* successive open() calls never decrease; and the cursor is never ahead of
\* a record that was read and not yet accepted, none being left at open().
C16_CheckpointFollowsPublish ==
    /\ \A i \in 1..Len(trace) :
          trace[i].op = "open" =>
              /\ (LastAcceptedBefore(i) # 0 =>
                    trace[i].n = trace[LastAcceptedBefore(i)].n)
              /\ (LastAcceptedBefore(Len(trace) + 1) = 0 /\ WholeHistory =>
                    trace[i].n = initCheckpoint(cursor))
              /\ \A k \in 1..(i - 1) :
                    trace[k].op = "open" => trace[k].n <= trace[i].n
    /\ \A k \in 1..Len(Pending) : initCheckpoint(cursor) < Pending[k].offset
    /\ (pc = "open" => Pending = <<>>)

\* C16 witness: open() at the initial checkpoint, a record accepted by
\* publish(), a Recoverable read() error with its reset, and the reopen at
\* the position of the accepted record.
C16_Witness ==
    /\ pc = "readcheck"
    /\ \E i, j, k \in 1..Len(trace) :
          /\ i < j /\ j < k
          /\ trace[i].op = "open" /\ trace[i].res = ErrNil
          /\ trace[j].op = "publish" /\ trace[j].res = "ok"
          /\ trace[j].n > trace[i].n
          /\ trace[k - 1].op = "reset"
          /\ trace[k] = Ev("open", ErrNil, trace[j].n)
          /\ k = LastOpen(trace)

\* C17: once the cancellation signal is raised, Run returns.
C17_CancelledRunReturns == cancelled ~> pc = "done"

\* C17 witness: the signal was raised during a backoff wait after a
\* Recoverable open() error, and Run has returned nil without another
\* open().
C17_Witness ==
    /\ pc = "done"
    /\ cancelAt = "wait5"
    /\ ret = RetNil
    /\ Len(trace) >= 4
    /\ trace[Len(trace) - 3].op = "open" /\ IsRecoverable(trace[Len(trace) - 3].res)
    /\ trace[Len(trace) - 1] = Ev("wait", "backoff", BackoffSeconds)
    /\ trace[Len(trace)] = Ev("return", "nil", 0)

\* The Degraded status that names the failure of each returning call.
DegradedFor(from) ==
    CASE from = "open" -> DegradedOpen
      [] from = "read" -> DegradedRead
      [] from = "publish" -> DegradedPublish
      [] OTHER -> Running

\* C18: when Run has returned an error, the last status written is the
\* Degraded status naming that failure, written right before the return;
\* the status is never Running then.
C18_ErrorReturnIsDegraded ==
    ret.val = "err" =>
        /\ status \in DegradedStatuses
        /\ status = DegradedFor(ret.from)
        /\ Len(trace) >= 2
        /\ trace[Len(trace)] = Ev("return", "err", 0)
        /\ trace[Len(trace) - 1] = Ev("status", status, 0)

\* C18 witness: a record was accepted while the status was Running, the
\* next publish() failed, and Run returned that error with status Degraded.
C18_Witness ==
    /\ pc = "done"
    /\ ret.val = "err" /\ ret.from = "publish"
    /\ status = DegradedPublish
    /\ Len(sessionPub) >= 1
    /\ \E i \in 1..Len(trace) :
          /\ trace[i] = Ev("status", Running, 0)
          /\ \A k \in (i + 1)..(Len(trace) - 2) : trace[k].op # "status"

\* C19: once close() has been invoked, the Runner never invokes open(),
\* read() or reset() on the source, for every interleaving of the
\* cancellation callback with the Runner loop.
C19_NoCallAfterClose == ~usedAfterClose

\* The number a PID value denotes: the decimal number of a string, the
\* value of an integer.
PidNumber(in) ==
    IF in.type = "string"
    THEN Num(in.chars # <<>> /\ in.chars[1] = "-",
             Magnitude(IF in.chars[1] \in {"+", "-"} THEN Tail(in.chars) ELSE in.chars))
    ELSE in.val

\* C20: when pidToUInt32 returns no error, the pid it returns has the
\* numeric value of its input; an input outside 0..2^32-1 yields an error.
C20_PidValuePreserved ==
    (pidOut # NoPid /\ pidOut.err = ErrNil) =>
        PidNumber(pidIn) = Num(FALSE, pidOut.pid)

====
